---- MODULE Spec2Model ----
(***************************************************************************)
(* Model of codegen/wgpu_native_patcher.py: the three annotation passes    *)
(* (CommentRemover, FunctionPatcher, StructPatcher), their driver          *)
(* patch_wgpu_native_backend, and the mapping synthesis (write_mappings,   *)
(* compare_flags).                                                         *)
(*                                                                         *)
(* A text (a line, a name, a signature) is a sequence of tokens.  A token  *)
(* is either one of the single characters the code inspects                *)
(*   " "  "("  ")"  "#"  "="  ","  ":"  "."  "*"  "_"  ";"  "-"  and the   *)
(*   double quote,                                                         *)
(* or a word that contains none of them at a place the code looks at.      *)
(* The string a text stands for is the concatenation of its tokens, and    *)
(* the string operations of the code (lstrip, strip, startswith, in,       *)
(* index, split, count, the regular expressions) are computed on tokens.   *)
(* A document is a sequence of lines; Python's 0-based line index k is     *)
(* line k+1 of the sequence.                                               *)
(***************************************************************************)
EXTENDS Integers, Sequences, FiniteSets, TLC

VARIABLES
    code0,       \* the text handed to the first pass of the run (history)
    todo,        \* the passes still to run after the current one
    passes,      \* log of the finished passes: their input, output, edits, count
    patcher,     \* the pass whose apply() is running
    pc,          \* "scan": in the for loop; "applied": apply() returned; "done";
                 \* "raised": an exception left the function;
                 \* "enummap", "native", "written", "flags", "compared": mapping synthesis
    lines,       \* Patcher.lines of the running pass
    diffs,       \* Patcher._diffs of the running pass
    i,           \* index of the next line iter_lines() yields
    count,       \* local count of FunctionPatcher.apply / StructPatcher.apply
    line_index,  \* StructPatcher.apply: start line of the pending span, or -1
    brace_depth, \* StructPatcher.apply: depth accumulated for the pending span
    detected,    \* FunctionPatcher.apply: set of detected native functions
    generic_class_var_assignment, \* FunctionPatcher.apply: <<field, <<symbols>>>> in insertion order
    generic_class_var_use,        \* FunctionPatcher.apply: <<field, use index>> in insertion order
    out,         \* the report stream: the texts print() was called with
    hp_enums,    \* NativeSchema.enums seen by write_mappings: <<name, <<key, val>>...>>
    idl_enums,   \* InterfaceSchema.enums: <<name, <<key, value text>>...>>
    hp_flags,    \* NativeSchema.flags
    idl_flags,   \* InterfaceSchema.flags
    enummap,     \* write_mappings: the enummap built so far, <<key text, int>> pairs
    enum_tables, \* write_mappings: the native-only tables written so far
    cstructfield2enum, \* write_mappings: the struct-field table, a set of <<key text, enum name>>
    file_cache,  \* the files written: <<file name, content>> pairs
    step         \* write_mappings / compare_flags: position in the current loop

vars == <<code0, todo, passes, patcher, pc, lines, diffs, i, count, line_index,
          brace_depth, detected, generic_class_var_assignment,
          generic_class_var_use, out, hp_enums, idl_enums, hp_flags, idl_flags,
          enummap, enum_tables, cstructfield2enum, file_cache, step>>

patchVars == <<code0, todo, passes, patcher, pc, lines, diffs, i, count,
               line_index, brace_depth, detected, generic_class_var_assignment,
               generic_class_var_use, out>>

mapVars == <<hp_enums, idl_enums, hp_flags, idl_flags, enummap, enum_tables,
             cstructfield2enum, file_cache, step>>

(***************************************************************************)
(* Bounds of the model.                                                    *)
(***************************************************************************)
MaxCleanLen == 4
MaxCallLen == 4
MaxStructLen == 3
MaxFields == 4
MaxPipeLen == 2
MaxEnumMembers == 2
MaxNativeMembers == 2

(***************************************************************************)
(* String operations on texts.                                             *)
(***************************************************************************)
\* str.startswith(p)
StartsWith(s, p) == Len(s) >= Len(p) /\ SubSeq(s, 1, Len(p)) = p

\* p in s (substring test), for a p that is aligned on tokens
Contains(s, p) == \E k \in 0..(Len(s) - Len(p)) : SubSeq(s, k + 1, k + Len(p)) = p

\* s.index(t) + 1 for a one-token t that occurs in s
IndexOf(s, t) == CHOOSE k \in 1..Len(s) : s[k] = t /\ \A m \in 1..(k - 1) : s[m] # t

\* s.rindex(t) + 1 for a one-token t that occurs in s
RIndexOf(s, t) == CHOOSE k \in 1..Len(s) : s[k] = t /\ \A m \in (k + 1)..Len(s) : s[m] # t

\* s.count(t) for a one-character t
CountOf(s, t) == Cardinality({k \in 1..Len(s) : s[k] = t})

RECURSIVE LStripChars(_, _)
LStripChars(s, cs) ==
    IF s # <<>> /\ s[1] \in cs THEN LStripChars(Tail(s), cs) ELSE s

RECURSIVE RStripChars(_, _)
RStripChars(s, cs) ==
    IF s # <<>> /\ s[Len(s)] \in cs THEN RStripChars(SubSeq(s, 1, Len(s) - 1), cs) ELSE s

\* s.strip(chars)
StripChars(s, cs) == RStripChars(LStripChars(s, cs), cs)

Whitespace == {" "}

\* s.lstrip() and s.strip()
lstrip(s) == LStripChars(s, Whitespace)
strip(s) == StripChars(s, Whitespace)

\* " " * (len(line) - len(line.lstrip()))
IndentOf(line) == SubSeq(line, 1, Len(line) - Len(lstrip(line)))

\* s.split(t)[0] for a one-character t
SplitFirst(s, t) == IF \E k \in 1..Len(s) : s[k] = t THEN SubSeq(s, 1, IndexOf(s, t) - 1) ELSE s

\* s.split(t)[1] for a one-character t that occurs in s
SplitSecond(s, t) == SplitFirst(SubSeq(s, IndexOf(s, t) + 1, Len(s)), t)

\* s.replace(old, new) for a one-token old and new
ReplaceTok(s, old, new) == [k \in 1..Len(s) |-> IF s[k] = old THEN new ELSE s[k]]

\* "# FIXME: " and "# H: ", the prefixes of the generated comments
FixmePrefix == <<"#", " ", "FIXME", ":", " ">>
HPrefix == <<"#", " ", "H", ":", " ">>

\* All sequences over V of length at most n
SeqsUpTo(V, n) == UNION {[1..k -> V] : k \in 0..n}

RECURSIVE Flatten(_)
Flatten(ss) == IF ss = <<>> THEN <<>> ELSE Head(ss) \o Flatten(Tail(ss))

(***************************************************************************)
(* Patcher (codegen.utils): the editable document of a pass.  diffs keeps, *)
(* for every index of lines, the lines scheduled before it in scheduling   *)
(* order, a replacement if any, and whether the line is removed.           *)
(***************************************************************************)
NoDiff == [ins |-> <<>>, rep |-> <<>>, del |-> FALSE]

\* Patcher._init(code)
EmptyDiffs(code) == [k \in 0..(Len(code) - 1) |-> NoDiff]

\* Patcher.insert_line(i, line); text holds the lines of `line` split at "\n"
insert_line(d, k, text) == [d EXCEPT ![k].ins = @ \o text]

\* Patcher.replace_line(i, line)
replace_line(d, k, line) == [d EXCEPT ![k].rep = <<line>>]

\* Patcher.remove_line(i)
remove_line(d, k) == [d EXCEPT ![k].del = TRUE]

\* Patcher.dumps(): the lines of the serialized text
dumps(ls, d) ==
    Flatten([k \in 1..Len(ls) |->
        d[k - 1].ins \o (IF d[k - 1].del THEN <<>>
                         ELSE IF d[k - 1].rep # <<>> THEN d[k - 1].rep
                         ELSE <<ls[k]>>)])

\* every line a pass scheduled for insertion, in document order
Inserted(d) == Flatten([k \in 1..Cardinality(DOMAIN d) |-> d[k - 1].ins])

(***************************************************************************)
(* CommentRemover                                                          *)
(***************************************************************************)
triggers ==
    { <<"#", " ", "FIXME", ":", " ", "unknown C">>,
      <<"#", " ", "FIXME", ":", " ", "invalid C">>,
      <<"#", " ", "H", ":">> }

IsTriggered_NoLstrip(line) == \E t \in triggers : StartsWith(line, t)

\* line.lstrip().startswith(self.triggers)
IsTriggered(line) == \E t \in triggers : StartsWith(lstrip(line), t)


(***************************************************************************)
(* The native schema the passes read (get_h_parser()).                     *)
(***************************************************************************)
\* hp.functions: symbol name -> declared signature
hp_functions ==
    [n \in {"wgpuA", "wgpuB", "wgpu_get_version"} |->
        IF n = "wgpuA" THEN <<"void", " ", "wgpuA", "(", "int x", ")", ";">>
        ELSE IF n = "wgpuB" THEN <<"int", " ", "wgpuB", "(", ")", ";">>
        ELSE <<"int", " ", "wgpu_get_version", "(", ")", ";">>]

\* the tokens the regular expressions' group wgpu\w* matches
WgpuNames == {"wgpuA", "wgpuB", "wgpuZ", "wgpu_get_version"}

\* the tokens the regular expressions' group _\w+_function matches
FieldNames == {"_a_function", "_b_function"}

\* "." of a regular expression matches any one character: every token that is
\* one character long, a letter or a digit as well as a punctuation mark
OneChar(t) == Len(t) = 1

\* name.startswith(ignore), line 281-287
StartsWithIgnore(n) == n \in {"wgpu_get_version"}

Error(msg) == <<"ERROR", ":", " ">> \o msg

(***************************************************************************)
(* FunctionPatcher                                                         *)
(***************************************************************************)
\* re.search(r"libf?\.(wgpu\w*)\(", line): position of the leftmost match, 0 if none
DirectCallAt(line) ==
    LET hits == {k \in 1..(Len(line) - 3) :
                    /\ line[k] \in {"lib", "libf"}
                    /\ line[k + 1] = "."
                    /\ line[k + 2] \in WgpuNames
                    /\ line[k + 3] = "("}
    IN IF hits = {} THEN 0 ELSE CHOOSE k \in hits : \A m \in hits : k <= m

\* re.search(r"(_\w+_function) = libf?\.(wgpu\w*)", line)
AssignmentAt(line) ==
    LET hits == {k \in 1..(Len(line) - 6) :
                    /\ line[k] \in FieldNames
                    /\ line[k + 1] = " " /\ line[k + 2] = "=" /\ line[k + 3] = " "
                    /\ line[k + 4] \in {"lib", "libf"}
                    /\ line[k + 5] = "."
                    /\ line[k + 6] \in WgpuNames}
    IN IF hits = {} THEN 0 ELSE CHOOSE k \in hits : \A m \in hits : k <= m

\* re.search(r"type\(self\).(_\w+_function)", line)
UseAt(line) ==
    LET hits == {k \in 1..(Len(line) - 5) :
                    /\ SubSeq(line, k, k + 3) = <<"type", "(", "self", ")">>
                    /\ OneChar(line[k + 4])
                    /\ line[k + 5] \in FieldNames}
    IN IF hits = {} THEN 0 ELSE CHOOSE k \in hits : \A m \in hits : k <= m

\* "lib.wgpu" in line
UsesLibHandle(line) ==
    \E k \in 1..(Len(line) - 2) :
        line[k] = "lib" /\ line[k + 1] = "." /\ line[k + 2] \in WgpuNames

\* lines 228-231
DeprecatedHandle(d, k, line) ==
    IF UsesLibHandle(line)
    THEN insert_line(d, k, <<IndentOf(line) \o FixmePrefix
                               \o <<"wgpu func calls must be done from libf">>>>)
    ELSE d

UnknownFunctionMsg(name) == <<"unknown C", " ", "function", " ", name>>

\* lines 233-235 and 246-249: st is [diffs, out]
UnknownFunction_NoReport(st, k, line, name) ==
    [st EXCEPT !.diffs = insert_line(@, k, <<IndentOf(line) \o FixmePrefix
                                              \o UnknownFunctionMsg(name)>>)]

UnknownFunction(st, k, line, name) ==
    [diffs |-> insert_line(st.diffs, k, <<IndentOf(line) \o FixmePrefix
                                           \o UnknownFunctionMsg(name)>>),
     out |-> Append(st.out, Error(UnknownFunctionMsg(name)))]

\* line 238: hp.functions[var_name].replace(var_name, "f").strip(";")
Anno(name) == StripChars(ReplaceTok(hp_functions[name], name, "f"), {";"})

\* defaultdict(list)[var].append(lib), keeping the insertion order of the keys
AssignmentAppend(a, var, lib) ==
    IF \E k \in 1..Len(a) : a[k][1] = var
    THEN [k \in 1..Len(a) |-> IF a[k][1] = var THEN <<var, Append(a[k][2], lib)>> ELSE a[k]]
    ELSE Append(a, <<var, <<lib>>>>)

\* dict[var] = value, keeping the insertion order of the keys
UseSet(u, var, k) ==
    IF \E m \in 1..Len(u) : u[m][1] = var
    THEN [m \in 1..Len(u) |-> IF u[m][1] = var THEN <<var, k>> ELSE u[m]]
    ELSE Append(u, <<var, k>>)

\* generic_class_var_assignment.pop(var_name, ()): the value
AssignedTo(a, var) ==
    IF \E k \in 1..Len(a) : a[k][1] = var
    THEN (CHOOSE e \in {a[k] : k \in 1..Len(a)} : e[1] = var)[2]
    ELSE <<>>

\* generic_class_var_assignment.pop(var_name, ()): what is left
PopVar(a, var) == SelectSeq(a, LAMBDA e : e[1] # var)

\* lines 223-256, the body of the scan loop for line k
FunctionStep ==
    /\ patcher = "FunctionPatcher" /\ pc = "scan" /\ i < Len(lines)
    /\ LET line == lines[i + 1]
           c == DirectCallAt(line)
           a == AssignmentAt(line)
           u == UseAt(line)
       IN IF c > 0 THEN
              LET var_name == line[c + 2]
                  d1 == DeprecatedHandle(diffs, i, line)
              IN IF var_name \notin DOMAIN hp_functions
                 THEN LET st == UnknownFunction([diffs |-> d1, out |-> out], i, line, var_name)
                      IN /\ diffs' = st.diffs /\ out' = st.out
                         /\ UNCHANGED <<detected, count, generic_class_var_assignment,
                                        generic_class_var_use>>
                 ELSE /\ detected' = detected \cup {var_name}
                      /\ diffs' = insert_line(d1, i, <<IndentOf(line) \o HPrefix \o Anno(var_name)>>)
                      /\ count' = count + 1
                      /\ UNCHANGED <<out, generic_class_var_assignment, generic_class_var_use>>
          ELSE IF a > 0 THEN
              LET var_name == line[a]
                  lib_name == line[a + 6]
              IN IF lib_name \notin DOMAIN hp_functions
                 THEN LET st == UnknownFunction([diffs |-> diffs, out |-> out], i, line, lib_name)
                      IN /\ diffs' = st.diffs /\ out' = st.out
                         /\ UNCHANGED <<detected, count, generic_class_var_assignment,
                                        generic_class_var_use>>
                 ELSE /\ generic_class_var_assignment' =
                             AssignmentAppend(generic_class_var_assignment, var_name, lib_name)
                      /\ UNCHANGED <<diffs, out, detected, count, generic_class_var_use>>
          ELSE IF u > 0 THEN
              /\ generic_class_var_use' = UseSet(generic_class_var_use, line[u + 5], i)
              /\ UNCHANGED <<diffs, out, detected, count, generic_class_var_assignment>>
          ELSE UNCHANGED <<diffs, out, detected, count, generic_class_var_assignment,
                           generic_class_var_use>>
    /\ i' = i + 1
    /\ UNCHANGED <<code0, todo, passes, patcher, pc, lines, line_index, brace_depth>>
    /\ UNCHANGED mapVars

NoAssignmentsMsg(var) == <<"There are no assignments to class field", " ", var>>

SignatureLines_Reversed(indent, lib_names) ==
    [m \in 1..Len(lib_names) |->
        indent \o HPrefix \o StripChars(hp_functions[lib_names[Len(lib_names) + 1 - m]], {";"})]

\* lines 267-270: one signature comment per assigned symbol, in list order
SignatureLines(indent, lib_names) ==
    [m \in 1..Len(lib_names) |->
        indent \o HPrefix \o StripChars(hp_functions[lib_names[m]], {";"})]

\* lines 258-270: st is [diffs, out, assignment, detected, count]
RECURSIVE AnnotateUses(_, _)
AnnotateUses(us, st) ==
    IF us = <<>> THEN st
    ELSE LET var_name == Head(us)[1]
             k == Head(us)[2]
             indent == IndentOf(lines[k + 1])
             lib_names == AssignedTo(st.assignment, var_name)
             missing == lib_names = <<>>
             d1 == IF missing
                   THEN insert_line(st.diffs, k, <<indent \o FixmePrefix \o NoAssignmentsMsg(var_name)>>)
                   ELSE st.diffs
         IN AnnotateUses(Tail(us),
                [diffs |-> insert_line(d1, k, SignatureLines(indent, lib_names)),
                 out |-> IF missing THEN Append(st.out, Error(NoAssignmentsMsg(var_name))) ELSE st.out,
                 assignment |-> PopVar(st.assignment, var_name),
                 detected |-> st.detected \cup {lib_names[m] : m \in 1..Len(lib_names)},
                 count |-> st.count + Len(lib_names)])

\* lines 274-275
NeverUsed(a) ==
    [k \in 1..Len(a) |-> Error(<<a[k][1], " ", "assigned a value but it is never used">>)]

\* lines 281-289
Unused(det) == {n \in DOMAIN hp_functions : ~StartsWithIgnore(n)} \ det

\* lines 258-289, what apply() does after the scan loop
FunctionFinish ==
    /\ patcher = "FunctionPatcher" /\ pc = "scan" /\ i = Len(lines)
    /\ LET st == AnnotateUses(generic_class_var_use,
                    [diffs |-> diffs, out |-> out,
                     assignment |-> generic_class_var_assignment,
                     detected |-> detected, count |-> count])
       IN /\ diffs' = st.diffs
          /\ generic_class_var_assignment' = st.assignment
          /\ detected' = st.detected
          /\ count' = st.count
          /\ out' = st.out \o NeverUsed(st.assignment)
                     \o << <<"Validated", " ", ToString(st.count), " ", "C function calls">>,
                           <<"Not using", " ", ToString(Cardinality(Unused(st.detected))), " ",
                             "C functions">> >>
    /\ pc' = "applied"
    /\ UNCHANGED <<code0, todo, passes, patcher, lines, i, line_index, brace_depth,
                   generic_class_var_use>>
    /\ UNCHANGED mapVars


(***************************************************************************)
(* StructPatcher                                                           *)
(***************************************************************************)
\* hp.structs: struct name -> ordered mapping field -> type
hp_structs ==
    [n \in {<<"WGPUColor">>, <<"WGPUTextureViewDescriptor">>} |->
        IF n = <<"WGPUColor">>
        THEN << <<<<"r">>, <<"float">>>>, <<<<"g">>, <<"float">>>>,
                <<<<"b">>, <<"float">>>>, <<<<"a">>, <<"float">>>> >>
        ELSE << <<<<"label">>, <<"char", " ", "*">>>>,
                <<<<"format">>, <<"WGPU", "TextureFormat">>>>,
                <<<<"dimension">>, <<"WGPU", "TextureViewDimension">>>>,
                <<<<"aspect">>, <<"WGPU", "TextureFormat", "/", "int">>>> >>]

\* the keys of a struct, in declaration order
FieldKeys(struct) == [k \in 1..Len(struct) |-> struct[k][1]]

InSeq(x, s) == \E k \in 1..Len(s) : s[k] = x

\* line 302: "new_struct_p(" in line or "new_struct(" in line
HasNewStruct(line) ==
    Contains(line, <<"new_struct", "_p", "(">>) \/ Contains(line, <<"new_struct", "(">>)

\* lines 303-308: the matches that are skipped
IsSkipped(line) ==
    \/ StartsWith(lstrip(line), <<"def", " ">>)
    \/ Contains(line, <<"_", "new_struct">>)
    \/ Contains(line, <<"new_struct", "_p", "(", ")">>)
    \/ Contains(line, <<"new_struct", "(", ")">>)

\* lines 310-311: line[line.index("new_struct"):]
FromNewStruct(line) == SubSeq(line, IndexOf(line, "new_struct"), Len(line))

\* lines 315-327: the characters of one line; the result is the depth reached
\* and how the loop ended: "open" (line exhausted or "#"), "closed" (depth
\* back to 0), "negative" (the assertion of line 322 fails)
RECURSIVE ScanBraces(_, _)
ScanBraces(text, depth) ==
    IF text = <<>> \/ Head(text) = "#" THEN [depth |-> depth, end |-> "open"]
    ELSE IF Head(text) = "(" THEN ScanBraces(Tail(text), depth + 1)
    ELSE IF Head(text) = ")" THEN
        IF depth - 1 < 0 THEN [depth |-> depth - 1, end |-> "negative"]
        ELSE IF depth - 1 = 0 THEN [depth |-> 0, end |-> "closed"]
        ELSE ScanBraces(Tail(text), depth - 1)
    ELSE ScanBraces(Tail(text), depth)

Notice == <<"Notice: made a struct multiline. Rerun codegen to validate the struct.">>

\* lines 344-346: line[:i] + "," + line[i:] with i = line.rindex(")")
CommaBeforeClose(line) ==
    LET k == RIndexOf(line, ")")
    IN SubSeq(line, 1, k - 1) \o <<",">> \o SubSeq(line, k, Len(line))

\* line 349: the triplet test
IsTriplet(ls) == Len(ls) = 3 /\ CountOf(ls[2], "=") > 0

\* line 358: assert len(lines) >= 3
IsMultiline_Four(ls) == Len(ls) >= 4

IsMultiline(ls) == Len(ls) >= 3

\* lines 361-362
NameOf(ls) == StripChars(strip(ls[2]), {",", "\""})
StructNameOf(ls) == StripChars(NameOf(ls), {" ", "*"})

\* lines 363-372: the helper / pointer-form check
CheckForm(d, i1, indent, ls) ==
    LET name == NameOf(ls)
        isp == Contains(ls[1], <<"new_struct", "_p">>)
    IN IF name # <<>> /\ name[Len(name)] = "*"
       THEN IF ~isp
            THEN insert_line(d, i1, <<indent \o FixmePrefix
                    \o <<"invalid C", " ", "struct", ",", " ", "use", " ",
                         "new_struct", "_p", "(", ")">>>>)
            ELSE d
       ELSE IF isp
            THEN insert_line(d, i1, <<indent \o FixmePrefix
                    \o <<"invalid C", " ", "struct", ",", " ", "use", " ",
                         "new_struct", "(", ")">>>>)
            ELSE d

UnknownStructMsg(struct_name) == <<"unknown C", " ", "struct", " ">> \o struct_name

UnknownFieldMsg(struct_name, key) ==
    <<"unknown C", " ", "struct", " ", "field", " ">> \o struct_name \o <<".">> \o key

NotUsedPrefix == <<"#", " ", "not used", ":">>

\* line 382: ", ".join(f"{key}: {val}" for key, val in struct.items())
RECURSIVE FieldList(_)
FieldList(struct) ==
    IF struct = <<>> THEN <<>>
    ELSE Head(struct)[1] \o <<":", " ">> \o Head(struct)[2]
         \o (IF Len(struct) > 1 THEN <<",", " ">> ELSE <<>>) \o FieldList(Tail(struct))

\* lines 389-393: the key of an interior line; <<"#">> stands for a skipped comment
KeyOf_NoNotUsed(line) ==
    LET key == strip(SplitFirst(line, "="))
    IN IF StartsWith(key, <<"#">>) THEN <<"#">> ELSE key

KeyOf(line) ==
    LET key == strip(SplitFirst(line, "="))
    IN IF StartsWith(key, NotUsedPrefix)
       THEN strip(SplitFirst(SplitSecond(key, ":"), "="))
       ELSE IF StartsWith(key, <<"#">>) THEN <<"#">>
       ELSE key

IsCommentKey(line) ==
    LET key == strip(SplitFirst(line, "="))
    IN ~StartsWith(key, NotUsedPrefix) /\ StartsWith(key, <<"#">>)

\* lines 386-398: st is [diffs, out, keys_found], j the index within the span
RECURSIVE CheckKeys(_, _, _, _, _, _)
CheckKeys(ls, j, st, i1, indent, struct_name) ==
    IF j >= Len(ls) - 1 THEN st
    ELSE IF IsCommentKey(ls[j + 1]) THEN CheckKeys(ls, j + 1, st, i1, indent, struct_name)
    ELSE LET key == KeyOf(ls[j + 1])
             known == InSeq(key, FieldKeys(hp_structs[struct_name]))
         IN CheckKeys(ls, j + 1,
                [keys_found |-> Append(st.keys_found, key),
                 diffs |-> IF known THEN st.diffs
                           ELSE insert_line(st.diffs, i1 + j,
                                   <<indent \o FixmePrefix \o UnknownFieldMsg(struct_name, key)>>),
                 out |-> IF known THEN st.out
                         ELSE Append(st.out, Error(UnknownFieldMsg(struct_name, key)))],
                i1, indent, struct_name)

\* lines 401-404
MoreLines_All(keys, keys_found, indent) ==
    [k \in 1..Len(keys) |->
        indent \o <<" ", " ", " ", " ", "#", " ", "not used", ":", " ">> \o keys[k]]

MoreLines(keys, keys_found, indent) ==
    LET unused == SelectSeq(keys, LAMBDA key : ~InSeq(key, keys_found))
    IN [k \in 1..Len(unused) |->
            indent \o <<" ", " ", " ", " ", "#", " ", "not used", ":", " ">> \o unused[k]]

\* lines 331-406: the result is [diffs, out, raised]
_validate_struct(d, o, i1, i2) ==
    LET ls == SubSeq(lines, i1 + 1, i2 + 1)
        indent == IndentOf(ls[Len(ls)])
    IN IF Len(ls) = 1
       THEN [diffs |-> replace_line(d, i1, CommaBeforeClose(ls[1])),
             out |-> Append(o, Notice), raised |-> FALSE]
       ELSE IF IsTriplet(ls)
       THEN [diffs |-> replace_line(d, i1 + 1, lines[i1 + 2] \o <<",">>),
             out |-> Append(o, Notice), raised |-> FALSE]
       ELSE IF ~IsMultiline(ls)
       THEN [diffs |-> d, out |-> o, raised |-> TRUE]
       ELSE LET struct_name == StructNameOf(ls)
                d1 == CheckForm(d, i1, indent, ls)
            IN IF struct_name \notin DOMAIN hp_structs
               THEN [diffs |-> insert_line(d1, i1, <<indent \o FixmePrefix
                                                     \o UnknownStructMsg(struct_name)>>),
                     out |-> Append(o, Error(UnknownStructMsg(struct_name))),
                     raised |-> FALSE]
               ELSE LET struct == hp_structs[struct_name]
                        d2 == insert_line(d1, i1, <<indent \o HPrefix \o FieldList(struct)>>)
                        st == CheckKeys(ls, 2, [diffs |-> d2, out |-> o, keys_found |-> <<>>],
                                        i1, indent, struct_name)
                        more_lines == MoreLines(FieldKeys(struct), st.keys_found, indent)
                    IN [diffs |-> IF more_lines # <<>>
                                  THEN insert_line(st.diffs, i2, more_lines)
                                  ELSE st.diffs,
                        out |-> st.out, raised |-> FALSE]

\* lines 301-327, the body of the scan loop for line i
StructStep ==
    /\ patcher = "StructPatcher" /\ pc = "scan" /\ i < Len(lines)
    /\ LET line0 == lines[i + 1]
           match == HasNewStruct(line0)
       IN IF match /\ IsSkipped(line0)
          THEN UNCHANGED <<line_index, brace_depth, diffs, out, count, pc>>
          ELSE LET li == IF match THEN i ELSE line_index
                   line == IF match THEN FromNewStruct(line0) ELSE line0
                   bd == IF match THEN 0 ELSE brace_depth
               IN IF li < 0
                  THEN UNCHANGED <<line_index, brace_depth, diffs, out, count, pc>>
                  ELSE LET r == ScanBraces(line, bd)
                       IN IF r.end = "open"
                          THEN /\ line_index' = li /\ brace_depth' = r.depth
                               /\ UNCHANGED <<diffs, out, count, pc>>
                          ELSE IF r.end = "negative"
                          THEN /\ line_index' = li /\ brace_depth' = r.depth
                               /\ pc' = "raised"
                               /\ UNCHANGED <<diffs, out, count>>
                          ELSE LET v == _validate_struct(diffs, out, li, i)
                               IN /\ diffs' = v.diffs /\ out' = v.out
                                  /\ brace_depth' = r.depth
                                  /\ IF v.raised
                                     THEN /\ pc' = "raised" /\ line_index' = li
                                          /\ UNCHANGED count
                                     ELSE /\ count' = count + 1 /\ line_index' = -1
                                          /\ UNCHANGED pc
    /\ i' = IF pc' = "raised" THEN i ELSE i + 1
    /\ UNCHANGED <<code0, todo, passes, patcher, lines, detected,
                   generic_class_var_assignment, generic_class_var_use>>
    /\ UNCHANGED mapVars

\* line 329
StructFinish ==
    /\ patcher = "StructPatcher" /\ pc = "scan" /\ i = Len(lines)
    /\ out' = Append(out, <<"Validated", " ", ToString(count), " ", "C structs">>)
    /\ pc' = "applied"
    /\ UNCHANGED <<code0, todo, passes, patcher, lines, diffs, i, count, line_index,
                   brace_depth, detected, generic_class_var_assignment,
                   generic_class_var_use>>
    /\ UNCHANGED mapVars

(***************************************************************************)
(* CommentRemover.apply and the driver                                     *)
(***************************************************************************)
\* lines 209-211, the body of the scan loop for line i
RemoverStep ==
    /\ patcher = "CommentRemover" /\ pc = "scan" /\ i < Len(lines)
    /\ diffs' = IF IsTriggered(lines[i + 1]) THEN remove_line(diffs, i) ELSE diffs
    /\ i' = i + 1
    /\ UNCHANGED <<code0, todo, passes, patcher, pc, lines, count, line_index,
                   brace_depth, detected, generic_class_var_assignment,
                   generic_class_var_use, out>>
    /\ UNCHANGED mapVars

\* the scan loop of CommentRemover.apply ends
RemoverFinish ==
    /\ patcher = "CommentRemover" /\ pc = "scan" /\ i = Len(lines)
    /\ pc' = "applied"
    /\ UNCHANGED <<code0, todo, passes, patcher, lines, diffs, i, count, line_index,
                   brace_depth, detected, generic_class_var_assignment,
                   generic_class_var_use, out>>
    /\ UNCHANGED mapVars

(***************************************************************************)
(* blacken (codegen.utils): the formatter that lays the text out between   *)
(* one pass's edits and the next pass's scan.  Comment lines and the order *)
(* of the lines stay.  A call whose arguments end with a comma, or hold a  *)
(* comment, is laid out as a block: the opening line, one line per         *)
(* argument (indented, with a comma) and per comment, the closing line.    *)
(* A call over several lines without either is joined on one line.  A     *)
(* text that is no list of arguments is left as it is.                     *)
(***************************************************************************)
Indent4 == <<" ", " ", " ", " ">>

\* the code of a line and its trailing comment
CodeOf(line) == SplitFirst(line, "#")
CommentOf(line) == IF InSeq("#", line) THEN SubSeq(line, IndexOf(line, "#"), Len(line)) ELSE <<>>
IsCommentLine(line) == StartsWith(lstrip(line), <<"#">>)

Balance(text) == CountOf(text, "(") - CountOf(text, ")")
EndsWith(s, t) == s # <<>> /\ s[Len(s)] = t

\* the texts between the commas that stand outside parentheses
RECURSIVE SplitArgs(_, _, _)
SplitArgs(text, depth, cur) ==
    IF text = <<>> THEN <<strip(cur)>>
    ELSE IF Head(text) = "," /\ depth = 0
    THEN <<strip(cur)>> \o SplitArgs(Tail(text), 0, <<>>)
    ELSE SplitArgs(Tail(text),
                   depth + (IF Head(text) = "(" THEN 1 ELSE IF Head(text) = ")" THEN -1 ELSE 0),
                   Append(cur, Head(text)))

\* the arguments of a text, a trailing comma left aside
Pieces(code) ==
    IF strip(code) = <<>> THEN <<>>
    ELSE LET ps == SplitArgs(strip(code), 0, <<>>)
         IN IF ps[Len(ps)] = <<>> THEN SubSeq(ps, 1, Len(ps) - 1) ELSE ps

Parseable(code) == \A k \in 1..Len(Pieces(code)) : Pieces(code)[k] # <<>>

\* the lines of a block for one line of a call: a comment line, or one line
\* per argument, the trailing comment kept on the last
ExplodedLines(line, ind) ==
    IF IsCommentLine(line) THEN <<ind \o strip(line)>>
    ELSE LET ps == Pieces(CodeOf(line))
         IN [q \in 1..Len(ps) |->
                ind \o ps[q] \o <<",">>
                \o (IF q = Len(ps) /\ CommentOf(line) # <<>>
                    THEN <<" ", " ">> \o CommentOf(line) ELSE <<>>)]

RECURSIVE JoinArgs(_)
JoinArgs(ps) ==
    IF ps = <<>> THEN <<>>
    ELSE IF Len(ps) = 1 THEN ps[1]
    ELSE ps[1] \o <<",", " ">> \o JoinArgs(Tail(ps))

\* the index of the "(" that the ")" after position j closes, or 0
RECURSIVE MatchOpen(_, _, _)
MatchOpen(code, j, depth) ==
    IF j = 0 THEN 0
    ELSE IF code[j] = ")" THEN MatchOpen(code, j - 1, depth + 1)
    ELSE IF code[j] = "(" THEN (IF depth = 0 THEN j ELSE MatchOpen(code, j - 1, depth - 1))
    ELSE MatchOpen(code, j - 1, depth)

\* a statement on one line: laid out as a block when the arguments of its
\* last call end with a comma
OneLine(line) ==
    LET code == CodeOf(line)
        k == RIndexOf(code, ")")
        m == MatchOpen(code, k - 1, 0)
        inner == SubSeq(code, m + 1, k - 1)
    IN IF /\ InSeq(")", code) /\ Balance(code) = 0 /\ m > 0
          /\ EndsWith(strip(inner), ",") /\ Parseable(inner)
       THEN <<SubSeq(code, 1, m)>>
            \o ExplodedLines(inner, IndentOf(line) \o Indent4)
            \o <<IndentOf(line) \o SubSeq(line, k, Len(line))>>
       ELSE <<line>>

\* the line on which the call opened on the first line of doc closes, or 0
RECURSIVE CloseAt(_, _, _)
CloseAt(doc, j, depth) ==
    IF j > Len(doc) THEN 0
    ELSE LET d == depth + Balance(CodeOf(doc[j]))
         IN IF d < 0 THEN 0 ELSE IF d = 0 THEN j ELSE CloseAt(doc, j + 1, d)

\* a call that spans the lines of span
Layout(span) ==
    LET n == Len(span)
        ind == IndentOf(span[1])
        lastcode == CodeOf(span[n])
        k == RIndexOf(lastcode, ")")
        pre == SubSeq(lastcode, 1, k - 1)
        tail == SubSeq(span[n], k, Len(span[n]))
        inner == SubSeq(span, 2, n - 1)
        coded == SelectSeq(inner, LAMBDA l : ~IsCommentLine(l))
        ok == /\ InSeq(")", lastcode)
              /\ \A q \in 1..Len(coded) :
                    EndsWith(strip(CodeOf(coded[q])), ",") /\ Parseable(CodeOf(coded[q]))
              /\ Parseable(pre)
        block == \/ \E q \in 1..Len(inner) : InSeq("#", inner[q])
                 \/ EndsWith(strip(pre), ",")
                 \/ (strip(pre) = <<>> /\ coded # <<>>)
        args == Flatten([q \in 1..Len(coded) |-> Pieces(CodeOf(coded[q]))]) \o Pieces(pre)
    IN IF ~ok THEN span
       ELSE IF block
       THEN <<span[1]>>
            \o Flatten([q \in 1..Len(inner) |-> ExplodedLines(inner[q], ind \o Indent4)])
            \o ExplodedLines(pre, ind \o Indent4)
            \o <<ind \o tail>>
       ELSE <<span[1] \o JoinArgs(args) \o tail>>

RECURSIVE blacken(_)
blacken(doc) ==
    IF doc = <<>> THEN <<>>
    ELSE IF IsCommentLine(doc[1]) THEN <<doc[1]>> \o blacken(Tail(doc))
    ELSE IF Balance(CodeOf(doc[1])) = 1 /\ EndsWith(doc[1], "(")
    THEN LET n == CloseAt(doc, 2, 1)
         IN IF n = 0 THEN <<doc[1]>> \o blacken(Tail(doc))
            ELSE Layout(SubSeq(doc, 1, n)) \o blacken(SubSeq(doc, n + 1, Len(doc)))
    ELSE OneLine(doc[1]) \o blacken(Tail(doc))

\* lines 198-200: code = patcher.dumps(), then the next patcher.apply(code)
\* starts with _init(code).  The text a pass dumped is formatted before the
\* next pass scans it; `output` logs the text as the pass's edits left it,
\* `input` of the next pass the formatted text.
NextPatcher ==
    /\ pc = "applied"
    /\ LET output == dumps(lines, diffs)
           code == blacken(output)
       IN /\ passes' = Append(passes, [patcher |-> patcher, input |-> lines,
                                       output |-> output, diffs |-> diffs, count |-> count])
          /\ IF todo = <<>>
             THEN /\ pc' = "done"
                  /\ UNCHANGED <<todo, patcher, lines, diffs, i, count, line_index,
                                 brace_depth, detected, generic_class_var_assignment,
                                 generic_class_var_use>>
             ELSE /\ pc' = "scan"
                  /\ patcher' = Head(todo)
                  /\ todo' = Tail(todo)
                  /\ lines' = code
                  /\ diffs' = EmptyDiffs(code)
                  /\ i' = 0
                  /\ count' = 0
                  /\ line_index' = -1
                  /\ brace_depth' = 0
                  /\ detected' = {}
                  /\ generic_class_var_assignment' = <<>>
                  /\ generic_class_var_use' = <<>>
    /\ UNCHANGED <<code0, out>>
    /\ UNCHANGED mapVars

\* the state when the first pass of a run starts on `code`
InitRun(code, ps) ==
    /\ code0 = code
    /\ patcher = Head(ps)
    /\ todo = Tail(ps)
    /\ passes = <<>>
    /\ pc = "scan"
    /\ lines = code
    /\ diffs = EmptyDiffs(code)
    /\ i = 0
    /\ count = 0
    /\ line_index = -1
    /\ brace_depth = 0
    /\ detected = {}
    /\ generic_class_var_assignment = <<>>
    /\ generic_class_var_use = <<>>
    /\ out = <<>>

\* the mapping synthesis is not running
NoMapping ==
    /\ hp_enums = <<>> /\ idl_enums = <<>> /\ hp_flags = <<>> /\ idl_flags = <<>>
    /\ enummap = <<>> /\ enum_tables = <<>> /\ step = 0
    /\ cstructfield2enum = {} /\ file_cache = <<>>


(***************************************************************************)
(* Input documents.                                                        *)
(***************************************************************************)
S4 == <<" ", " ", " ", " ">>

\* lines of a body that calls the library
CallLines ==
    { <<"libf", ".", "wgpuA", "(", "x", ")">>,                          \* libf.wgpuA(x)
      S4 \o <<"lib", ".", "wgpuB", "(", ")">>,                          \*     lib.wgpuB()
      <<"libf", ".", "wgpuZ", "(", "x", ")">>,                          \* libf.wgpuZ(x)
      S4 \o <<"y", " ", "=", " ", "lib", ".", "wgpuZ", "(", ")">>,      \*     y = lib.wgpuZ()
      <<"self", ".", "_a_function", " ", "=", " ", "libf", ".", "wgpuA">>,
      <<"self", ".", "_a_function", " ", "=", " ", "libf", ".", "wgpuB">>,
      S4 \o <<"self", ".", "_b_function", " ", "=", " ", "libf", ".", "wgpuZ">>,
      S4 \o <<"type", "(", "self", ")", ".", "_a_function", "(", "x", ")">>,
      <<"type", "(", "self", ")", ".", "_b_function", "(", ")">>,
      <<"type", "(", "self", ")", "x", "_a_function", "(", ")">>,       \* type(self)x_a_function()
      <<"x", " ", "=", " ", "1">> }

\* lines of a body that holds generated comments
CommentLines ==
    { FixmePrefix \o UnknownFunctionMsg("wgpuZ"),
      S4 \o HPrefix \o <<"void", " ", "f", "(", "int x", ")">>,
      S4 \o FixmePrefix \o <<"invalid C", " ", "struct", ",", " ", "use", " ",
                              "new_struct", "(", ")">>,
      FixmePrefix \o <<"wgpu func calls must be done from libf">>,
      FixmePrefix \o NoAssignmentsMsg("_a_function"),
      S4 \o NotUsedPrefix \o <<" ", "b">>,
      <<"x", " ", "=", " ", "1", " ", " ">> \o HPrefix \o <<"x">>,
      <<"libf", ".", "wgpuA", "(", "x", ")">> }

OpenLine == <<"x", " ", "=", " ", "new_struct", "(">>
OpenPLine == <<"x", " ", "=", " ", "new_struct", "_p", "(">>
NameLine == S4 \o <<"\"", "WGPUColor", "\"", ",">>
NamePLine == S4 \o <<"\"", "WGPUColor", " ", "*", "\"", ",">>
NameUnknownLine == S4 \o <<"\"", "WGPUNope", "\"", ",">>
FieldLine(f) == S4 \o <<f, "=", "1", ",">>
CloseLine == <<")">>
TripletLine == S4 \o <<"\"", "WGPUColor", "\"", ",", " ", "r", "=", "1", ",", " ",
                       "g", "=", "2">>

\* the interior lines of a block-formatted literal
InteriorLines ==
    { FieldLine("r"), FieldLine("g"), FieldLine("z"),
      S4 \o NotUsedPrefix \o <<" ", "b">>,
      S4 \o <<"a", "=", "f", "(", "1", ")", ",", " ", " ", "#", " ", ")">> }

\* a literal on one line (line 339)
SingleLine ==
    <<"x", " ", "=", " ", "new_struct", "(", "\"", "WGPUColor", "\"", ",", " ",
      "r", "=", "1", ")">>

\* lines of a body that builds struct literals
\* the helper's own definition, which line 303 skips
DefLine == <<"def", " ", "new_struct", "(", "a", ")", ":">>

StructLines ==
    { OpenLine, OpenPLine, NameLine, NamePLine, NameUnknownLine, FieldLine("r"), CloseLine,
      SingleLine,
      TripletLine,
      S4 \o <<"\"", "WGPUColor", "\"", ",", " ", "r", "=", "1", ")">>,
      <<"f", "(", "new_struct", ")", ",", " ", "new_struct", "(">>,
      DefLine,
      S4 \o <<"self", ".", "_", "new_struct", "(", ")">> }

\* a literal laid out as a block: opening line, name line, interior lines, closing line
BlockDocs ==
    { <<o, n>> \o fs \o <<CloseLine>> :
        o \in {OpenLine, OpenPLine},
        n \in {NameLine, NamePLine, NameUnknownLine},
        fs \in SeqsUpTo(InteriorLines, MaxFields) }

\* a block whose interior holds a line that names the helper and is skipped
SkippedInBlock == <<OpenLine, NameLine, DefLine, CloseLine>>

StructDocs == SeqsUpTo(StructLines, MaxStructLen) \cup BlockDocs \cup {SkippedInBlock}

(***************************************************************************)
(* Specifications.                                                         *)
(***************************************************************************)
\* the cleanup pass run twice in a row
InitClean ==
    /\ \E code \in SeqsUpTo(CommentLines, MaxCleanLen) :
          InitRun(code, <<"CommentRemover", "CommentRemover">>)
    /\ NoMapping

NextClean == RemoverStep \/ RemoverFinish \/ NextPatcher

SpecClean == InitClean /\ [][NextClean]_vars

\* the call-site pass
InitCall ==
    /\ \E code \in SeqsUpTo(CallLines, MaxCallLen) : InitRun(code, <<"FunctionPatcher">>)
    /\ NoMapping

NextCall == FunctionStep \/ FunctionFinish \/ NextPatcher

SpecCall == InitCall /\ [][NextCall]_vars

\* the struct-literal pass, fed its own output once
InitStruct ==
    /\ \E code \in StructDocs : InitRun(code, <<"StructPatcher", "StructPatcher">>)
    /\ NoMapping

NextStruct == StructStep \/ StructFinish \/ NextPatcher

SpecStruct == InitStruct /\ [][NextStruct]_vars


\* the driver run twice on a body without generated comments
PipeCallLines ==
    { <<"libf", ".", "wgpuA", "(", "x", ")">>,
      S4 \o <<"lib", ".", "wgpuB", "(", ")">>,
      <<"libf", ".", "wgpuZ", "(", "x", ")">>,
      <<"self", ".", "_a_function", " ", "=", " ", "libf", ".", "wgpuA">>,
      S4 \o <<"type", "(", "self", ")", ".", "_a_function", "(", "x", ")">>,
      <<"type", "(", "self", ")", ".", "_b_function", "(", ")">> }

PipeBlocks ==
    { <<o, n>> \o fs \o <<CloseLine>> :
        o \in {OpenLine, OpenPLine},
        n \in {NameLine, NameUnknownLine},
        fs \in SeqsUpTo({FieldLine("r"), FieldLine("z")}, 1) }
    \cup { <<SingleLine>>, <<OpenLine, TripletLine, CloseLine>> }

PipeDocs == { c \o b : c \in SeqsUpTo(PipeCallLines, MaxPipeLen), b \in {<<>>} \cup PipeBlocks }

\* line 198: the three passes, in order
Pipeline == <<"CommentRemover", "FunctionPatcher", "StructPatcher">>

InitPipe ==
    /\ \E code \in PipeDocs : InitRun(code, Pipeline \o Pipeline)
    /\ NoMapping

NextPipe ==
    \/ RemoverStep \/ RemoverFinish
    \/ FunctionStep \/ FunctionFinish
    \/ StructStep \/ StructFinish
    \/ NextPatcher

SpecPipe == InitPipe /\ [][NextPipe]_vars

(***************************************************************************)
(* Mapping synthesis: write_mappings and compare_flags.  A mapping (dict)  *)
(* is a sequence of <<key, value>> pairs with distinct keys, in insertion  *)
(* order.  Enum and flag-set names are single tokens, member names texts   *)
(* of letters.                                                             *)
(***************************************************************************)
Has(dict, key) == \E k \in 1..Len(dict) : dict[k][1] = key
Get(dict, key) == (CHOOSE e \in {dict[k] : k \in 1..Len(dict)} : e[1] = key)[2]

\* dict[key] = val
Put(dict, key, val) ==
    IF Has(dict, key)
    THEN [k \in 1..Len(dict) |-> IF dict[k][1] = key THEN <<key, val>> ELSE dict[k]]
    ELSE Append(dict, <<key, val>>)

\* str.lower() of one token
LowerTok(t) ==
    CASE t = "A" -> "a" [] t = "B" -> "b" [] t = "C" -> "c"
      [] t = "Undefined" -> "undefined" [] t = "Vulkan" -> "vulkan"
      [] t = "Force32" -> "force32"
      [] OTHER -> t

\* str.upper() of one token
UpperTok(t) ==
    CASE t = "a" -> "A" [] t = "b" -> "B" [] t = "c" -> "C" [] OTHER -> t

IsLetter(t) == t \in {"a", "b", "c", "A", "B", "C"}

\* str.lower()
Lower(s) == [k \in 1..Len(s) |-> LowerTok(s[k])]

\* str.replace(c, "") for a one-character c
Remove(s, c) == SelectSeq(s, LAMBDA t : t # c)

\* str.title(): a letter that follows a letter is lower-cased, any other is upper-cased
Title(s) ==
    [k \in 1..Len(s) |->
        IF k > 1 /\ IsLetter(s[k - 1]) THEN LowerTok(s[k]) ELSE UpperTok(s[k])]

\* line 73: name_map of write_mappings is empty; name_map.get(key, default)
name_map == <<>>
NameMapGet(map, key, default) == IF Has(map, key) THEN Get(map, key) ELSE default

\* lines 46-48: name_map of compare_flags
flag_name_map == << <<"ColorWrite", "ColorWriteMask">> >>

\* line 87: {key.lower(): val for key, val in hp.enums[hname].items()}
RECURSIVE LowerKeys_AsIs(_)
LowerKeys_AsIs(members) ==
    IF members = <<>> THEN <<>>
    ELSE Put(LowerKeys_AsIs(SubSeq(members, 1, Len(members) - 1)),
             members[Len(members)][1], members[Len(members)][2])

RECURSIVE LowerKeys(_)
LowerKeys(members) ==
    IF members = <<>> THEN <<>>
    ELSE Put(LowerKeys(SubSeq(members, 1, Len(members) - 1)),
             Lower(members[Len(members)][1]), members[Len(members)][2])

\* line 89-90: ikey.lower().replace("-", ""), then the (empty) override
NativeKey(name, ikey) == Remove(Lower(ikey), "-")

EnumMissing(hname) == <<"Enum", " ", hname, " ", "missing in wgpu.h">>
FieldMissing(name, ikey) ==
    <<"Enum field", " ", name, ".">> \o ikey \o <<" ", "missing in wgpu.h">>

\* lines 88-94: the members of one interface enum; st is [enummap, out]
RECURSIVE MapMembers(_, _, _, _)
MapMembers(name, members, hp_enum, st) ==
    IF members = <<>> THEN st
    ELSE LET ikey == Head(members)[2]
             hkey == NativeKey(name, ikey)
         IN MapMembers(name, Tail(members), hp_enum,
                IF Has(hp_enum, hkey)
                THEN [st EXCEPT !.enummap = Put(@, <<name, ".">> \o ikey, Get(hp_enum, hkey))]
                ELSE [st EXCEPT !.out = Append(@, FieldMissing(name, ikey))])

\* lines 82-94, the body of the loop for one interface enum
EnumStep ==
    /\ patcher = "write_mappings" /\ pc = "enummap" /\ step < Len(idl_enums)
    /\ LET name == idl_enums[step + 1][1]
           hname == NameMapGet(name_map, name, name)
       IN IF ~Has(hp_enums, hname)
          THEN /\ out' = Append(out, EnumMissing(hname))
               /\ UNCHANGED enummap
          ELSE LET st == MapMembers(name, idl_enums[step + 1][2],
                                    LowerKeys(Get(hp_enums, hname)),
                                    [enummap |-> enummap, out |-> out])
               IN /\ enummap' = st.enummap /\ out' = st.out
    /\ step' = step + 1
    /\ UNCHANGED <<hp_enums, idl_enums, hp_flags, idl_flags, enum_tables, pc,
                   cstructfield2enum, file_cache>>
    /\ UNCHANGED <<code0, todo, passes, patcher, lines, diffs, i, count, line_index,
                   brace_depth, detected, generic_class_var_assignment,
                   generic_class_var_use>>

\* lines 125-154: the native-only enums, in the order their tables are written
NativeOnly ==
    << <<"enum_str2int", "BackendType">>, <<"enum_str2int", "NativeFeature">>,
       <<"enum_int2str", "BackendType">>, <<"enum_int2str", "AdapterType">>,
       <<"enum_int2str", "ErrorType">>, <<"enum_int2str", "DeviceLostReason">>,
       <<"enum_int2str", "TextureFormat">>, <<"enum_int2str", "TextureDimension">>,
       <<"enum_int2str", "PresentMode">>, <<"enum_int2str", "CompositeAlphaMode">> >>

\* lines 155-161: the interface spellings of an enum, keyed by the spelling without hyphens
RECURSIVE WebgpuNames(_)
WebgpuNames(members) ==
    IF members = <<>> THEN <<>>
    ELSE Put(WebgpuNames(SubSeq(members, 1, Len(members) - 1)),
             Remove(members[Len(members)][2], "-"), members[Len(members)][2])

WebgpuNamesOf(name) ==
    IF Has(idl_enums, name)
    THEN LET w == WebgpuNames(Get(idl_enums, name))
         IN IF Has(w, <<"unknown">>) THEN Put(w, <<"undefined">>, <<"unknown">>) ELSE w
    ELSE <<>>

\* to_snake_case of codegen.utils: every letter is lower-cased, and a "_" is
\* put before an upper-case letter that is not the first character and does
\* not follow a "_"
RECURSIVE to_snake_case(_)
to_snake_case(name) ==
    IF name = <<>> THEN <<>>
    ELSE LET name2 == to_snake_case(SubSeq(name, 1, Len(name) - 1))
             c == name[Len(name)]
             c2 == LowerTok(c)
         IN IF c2 # c /\ name2 # <<>> /\ name2[Len(name2)] # "_"
            THEN name2 \o <<"_", c2>>
            ELSE Append(name2, c2)

\* lines 127-130, 134-138 and 163-167: the rows of one table, Force32 left out.
\* A row of enum_int2str is <<val, spelling>>; a row of enum_str2int is
\* <<key, val>>, the key of NativeFeature respelled as at line 137.
TableRows(table, name, members) ==
    LET kept == SelectSeq(members, LAMBDA e : e[1] # <<"Force32">>)
        w == WebgpuNamesOf(name)
    IN [k \in 1..Len(kept) |->
          IF table = "enum_int2str"
          THEN <<kept[k][2], IF Has(w, Lower(kept[k][1])) THEN Get(w, Lower(kept[k][1]))
                             ELSE kept[k][1]>>
          ELSE IF name = "NativeFeature"
          THEN <<ReplaceTok(to_snake_case(kept[k][1]), "_", "-"), kept[k][2]>>
          ELSE kept[k]]

\* structname[4:] of the name of a native struct
WithoutPrefix(structname) ==
    CASE structname = <<"WGPUColor">> -> <<"Color">>
      [] structname = <<"WGPUTextureViewDescriptor">> -> <<"TextureViewDescriptor">>

\* val[4:].split("/")[0] of a type text that starts with "WGPU"
EnumNameOf(val) ==
    LET rest == Tail(val)
    IN SplitFirst(rest, "/")

\* lines 105-114: the fields of native structs whose type is an interface enum
\* (name_map_i is empty as name_map is)
StructFieldEnums ==
    { <<WithoutPrefix(e[1]) \o <<".">> \o hp_structs[e[1]][e[2]][1],
        EnumNameOf(hp_structs[e[1]][e[2]][2])>> :
        e \in { f \in UNION { { <<n, j>> : j \in 1..Len(hp_structs[n]) } :
                                n \in DOMAIN hp_structs } :
            /\ StartsWith(hp_structs[f[1]][f[2]][2], <<"WGPU">>)
            /\ Len(EnumNameOf(hp_structs[f[1]][f[2]][2])) = 1
            /\ Has(idl_enums, EnumNameOf(hp_structs[f[1]][f[2]][2])[1]) } }

\* lines 96-121: the loop over the interface enums has ended; the struct-field
\* table is built
EnumsDone ==
    /\ patcher = "write_mappings" /\ pc = "enummap" /\ step = Len(idl_enums)
    /\ pc' = "native" /\ step' = 0
    /\ cstructfield2enum' = StructFieldEnums
    /\ UNCHANGED <<hp_enums, idl_enums, hp_flags, idl_flags, enummap, enum_tables, out,
                   file_cache>>
    /\ UNCHANGED <<code0, todo, passes, patcher, lines, diffs, i, count, line_index,
                   brace_depth, detected, generic_class_var_assignment,
                   generic_class_var_use>>

\* lines 125-139 and 145-168, one native-only enum: hp.enums[name] raises
\* KeyError when the native schema has no such enum
NativeOnlyStep ==
    /\ patcher = "write_mappings" /\ pc = "native" /\ step < Len(NativeOnly)
    /\ LET table == NativeOnly[step + 1][1]
           name == NativeOnly[step + 1][2]
       IN IF ~Has(hp_enums, name)
          THEN /\ pc' = "raised"
               /\ UNCHANGED <<enum_tables, step>>
          ELSE /\ enum_tables' = Append(enum_tables,
                      <<table, name, TableRows(table, name, Get(hp_enums, name))>>)
               /\ step' = step + 1
               /\ UNCHANGED pc
    /\ UNCHANGED <<hp_enums, idl_enums, hp_flags, idl_flags, enummap, out,
                   cstructfield2enum, file_cache>>
    /\ UNCHANGED <<code0, todo, passes, patcher, lines, diffs, i, count, line_index,
                   brace_depth, detected, generic_class_var_assignment,
                   generic_class_var_use>>

\* lines 172-176: the artifact is written and the counts reported.  The file
\* lists enummap and cstructfield2enum sorted by key (lines 99, 119), so their
\* listings are given as the sets of their entries.
WriteArtifact ==
    /\ patcher = "write_mappings" /\ pc = "native" /\ step = Len(NativeOnly)
    /\ pc' = "written"
    /\ file_cache' = Append(file_cache,
          <<"backends/wgpu_native/_mappings.py",
            [enummap |-> {enummap[k] : k \in 1..Len(enummap)},
             cstructfield2enum |-> cstructfield2enum,
             tables |-> enum_tables]>>)
    /\ out' = Append(out, <<"Wrote", " ", ToString(Len(enummap)), " ", "enum mappings",
                            " ", "and", " ", ToString(Cardinality(cstructfield2enum)), " ",
                            "struct-field mappings", " ", "to", " ",
                            "wgpu_native/_mappings.py">>)
    /\ UNCHANGED <<hp_enums, idl_enums, hp_flags, idl_flags, enummap, enum_tables, step,
                   cstructfield2enum>>
    /\ UNCHANGED <<code0, todo, passes, patcher, lines, diffs, i, count, line_index,
                   brace_depth, detected, generic_class_var_assignment,
                   generic_class_var_use>>

\* lines 55-61: the members of one interface flag-set
RECURSIVE CompareMembers(_, _, _, _)
CompareMembers(name, members, hp_flag, o) ==
    IF members = <<>> THEN o
    ELSE LET key == Remove(Title(Head(members)[1]), "_")
             val == Head(members)[2]
         IN CompareMembers(name, Tail(members), hp_flag,
                IF ~Has(hp_flag, key)
                THEN Append(o, <<"Flag field", " ", name, ".">> \o key
                                 \o <<" ", "missing in wgpu.h">>)
                ELSE IF val # Get(hp_flag, key)
                THEN Append(o, <<"Warning: Flag field", " ", name, ".">> \o key
                                 \o <<" ", "have different values.">>)
                ELSE o)

\* lines 50-61, the body of the loop for one interface flag-set
FlagStep ==
    /\ patcher = "compare_flags" /\ pc = "flags" /\ step < Len(idl_flags)
    /\ LET name == NameMapGet(flag_name_map, idl_flags[step + 1][1], idl_flags[step + 1][1])
       IN out' = IF ~Has(hp_flags, name)
                 THEN Append(out, <<"Flag", " ", name, " ", "missing in wgpu.h">>)
                 ELSE CompareMembers(name, idl_flags[step + 1][2], Get(hp_flags, name), out)
    /\ step' = step + 1
    /\ UNCHANGED <<hp_enums, idl_enums, hp_flags, idl_flags, enummap, enum_tables, pc,
                   cstructfield2enum, file_cache>>
    /\ UNCHANGED <<code0, todo, passes, patcher, lines, diffs, i, count, line_index,
                   brace_depth, detected, generic_class_var_assignment,
                   generic_class_var_use>>

\* line 50: idl.flags.items() is exhausted (at once when idl.flags is empty),
\* and compare_flags returns
FlagsDone ==
    /\ patcher = "compare_flags" /\ pc = "flags" /\ step = Len(idl_flags)
    /\ pc' = "compared"
    /\ UNCHANGED <<hp_enums, idl_enums, hp_flags, idl_flags, enummap, enum_tables, step,
                   cstructfield2enum, file_cache, out>>
    /\ UNCHANGED <<code0, todo, passes, patcher, lines, diffs, i, count, line_index,
                   brace_depth, detected, generic_class_var_assignment,
                   generic_class_var_use>>

\* the schemas handed to the mapping synthesis
IdlValues == { <<"a">>, <<"a", "-", "b">>, <<"A", "b">> }
NativeKeys == { <<"A", "b">>, <<"a", "b">>, <<"A">> }

\* mappings of at most n entries with distinct keys from K and values from V
DictsUpTo(K, V, n) ==
    { d \in SeqsUpTo(K \X V, n) : \A x, y \in 1..Len(d) : x # y => d[x][1] # d[y][1] }

IdlMembers ==
    { [k \in 1..Len(vs) |-> <<IF k = 1 THEN <<"K1">> ELSE IF k = 2 THEN <<"K2">> ELSE <<"K3">>, vs[k]>>] :
        vs \in SeqsUpTo(IdlValues, MaxEnumMembers) }

FixedMembers == << <<<<"Undefined">>, 0>>, <<<<"Vulkan">>, 1>>, <<<<"Force32">>, 2147483647>> >>

\* the members of NativeFeature, spelled in mixed case and with an underscore
FeatureMembers ==
    << <<<<"A", "b", "C">>, 1>>, <<<<"A", "_", "B">>, 2>>, <<<<"Force32">>, 2147483647>> >>

OtherNativeOnly ==
    << "BackendType", "NativeFeature", "AdapterType", "ErrorType", "DeviceLostReason",
       "TextureDimension", "PresentMode", "CompositeAlphaMode" >>

\* the native enums: the native-only ones except `absent`, then `extra`
NativeEnums(absent, extra) ==
    [k \in 1..Len(SelectSeq(OtherNativeOnly, LAMBDA n : n # absent)) |->
        LET n == SelectSeq(OtherNativeOnly, LAMBDA m : m # absent)[k]
        IN <<n, IF n = "NativeFeature" THEN FeatureMembers ELSE FixedMembers>>] \o extra

InitNoPatch ==
    /\ code0 = <<>> /\ todo = <<>> /\ passes = <<>> /\ lines = <<>> /\ diffs = <<>>
    /\ i = 0 /\ count = 0 /\ line_index = -1 /\ brace_depth = 0 /\ detected = {}
    /\ generic_class_var_assignment = <<>> /\ generic_class_var_use = <<>>
    /\ out = <<>>

InitWriteMappings ==
    /\ patcher = "write_mappings" /\ pc = "enummap"
    /\ \E im \in IdlMembers, absent \in {"none", "BackendType", "PresentMode"},
          native \in {<<>>} \cup { << <<"TextureFormat", nm>> >> :
                                     nm \in DictsUpTo(NativeKeys, {1, 2}, MaxNativeMembers) } :
          /\ idl_enums = << <<"TextureFormat", im>>, <<"Extra", << <<<<"K1">>, <<"a">>>> >> >> >>
          /\ hp_enums = NativeEnums(absent, native)
    /\ idl_flags = <<>> /\ hp_flags = <<>>
    /\ enummap = <<>> /\ enum_tables = <<>> /\ step = 0
    /\ cstructfield2enum = {} /\ file_cache = <<>>

FlagKeys == { <<"A", "B">>, <<"A", "_", "B">>, <<"c">> }

InitCompareFlags ==
    /\ patcher = "compare_flags" /\ pc = "flags"
    /\ \E n \in {"ColorWrite", "Map"}, empty \in BOOLEAN,
          fm \in DictsUpTo(FlagKeys, {1, 2}, MaxEnumMembers),
          hf \in {<<>>} \cup { << <<hn, << <<<<"A", "b">>, 1>>, <<<<"A", "B">>, 2>>, <<<<"C">>, 1>> >> >> >> :
                                 hn \in {"ColorWriteMask", "Usage"} } :
          /\ idl_flags = IF empty THEN <<>>
                         ELSE << <<n, fm>>, <<"Usage", << <<<<"c">>, 1>> >> >> >>
          /\ hp_flags = hf
    /\ idl_enums = <<>> /\ hp_enums = <<>>
    /\ enummap = <<>> /\ enum_tables = <<>> /\ step = 0
    /\ cstructfield2enum = {} /\ file_cache = <<>>

InitMap == InitNoPatch /\ (InitWriteMappings \/ InitCompareFlags)

NextMap ==
    \/ EnumStep \/ EnumsDone \/ NativeOnlyStep \/ WriteArtifact
    \/ FlagStep \/ FlagsDone

SpecMap == InitMap /\ [][NextMap]_vars

(***************************************************************************)
(* Properties.                                                             *)
(***************************************************************************)
\* the lines of s that satisfy P, counted
CountLines(s, P(_)) == Len(SelectSeq(s, P))

\* a line whose left-trimmed content begins with one of the three markers
BeginsWithMarker(line) ==
    LET t == lstrip(line)
    IN \/ StartsWith(t, <<"#", " ", "FIXME", ":", " ", "unknown C">>)
       \/ StartsWith(t, <<"#", " ", "FIXME", ":", " ", "invalid C">>)
       \/ StartsWith(t, <<"#", " ", "H", ":">>)

IsFixme(line) == StartsWith(lstrip(line), <<"#", " ", "FIXME", ":">>)
IsSignature(line) == StartsWith(lstrip(line), <<"#", " ", "H", ":">>)
IsNotUsed(line) == StartsWith(lstrip(line), <<"#", " ", "not used", ":">>)

\* C1: running the cleanup pass twice yields the same document as running it
\* once; after one run no line begins (left-trimmed) with a marker, and every
\* other line of the input is kept, in its original order.
C1_CleanupIdempotent ==
    (pc = "done" /\ Len(passes) = 2 /\ passes[1].patcher = "CommentRemover") =>
        /\ passes[2].output = passes[1].output
        /\ passes[1].output = SelectSeq(code0, LAMBDA l : ~BeginsWithMarker(l))

C1_Witness ==
    /\ pc = "done" /\ Len(passes) = 2 /\ passes[1].patcher = "CommentRemover"
    /\ Len(passes[1].output) = 2 /\ Len(code0) = 3
    /\ \E k \in 1..3 : code0[k] = S4 \o HPrefix \o <<"void", " ", "f", "(", "int x", ")">>


\* the direct call the call-site pass finds on a line, and its symbol
IsDirectCall(line) == DirectCallAt(line) > 0
CalledSymbol(line) == line[DirectCallAt(line) + 2]
IsUnknownCall(line) == IsDirectCall(line) /\ CalledSymbol(line) \notin DOMAIN hp_functions
IsKnownCall(line) == IsDirectCall(line) /\ CalledSymbol(line) \in DOMAIN hp_functions

\* an assignment of a library symbol to an indirection field, and a use of one
IsAssignment(line) == ~IsDirectCall(line) /\ AssignmentAt(line) > 0
AssignedField(line) == line[AssignmentAt(line)]
AssignedSymbol(line) == line[AssignmentAt(line) + 6]
IsUse(line) == ~IsDirectCall(line) /\ AssignmentAt(line) = 0 /\ UseAt(line) > 0
UsedField(line) == line[UseAt(line) + 5]

UnknownFixme(line, name) ==
    IndentOf(line) \o <<"#", " ", "FIXME", ":", " ", "unknown C", " ", "function", " ", name>>

UnknownError(name) ==
    <<"ERROR", ":", " ", "unknown C", " ", "function", " ", name>>

IsUnknownError(msg) == \E n \in WgpuNames : msg = UnknownError(n)

\* C7: for every direct call of a symbol absent from hp.functions the
\* call-site pass inserts exactly one "unknown C function" fix-me line, as the
\* last line before the call line, and no signature comment; it emits exactly
\* one ERROR per such call, and the validated-call counter counts only the
\* calls of known symbols.
C7_UnknownFunction ==
    (patcher = "FunctionPatcher" /\ pc = "scan") =>
        /\ \A k \in 0..(i - 1) :
              IsUnknownCall(lines[k + 1]) =>
                 LET ins == diffs[k].ins
                     fixme == UnknownFixme(lines[k + 1], CalledSymbol(lines[k + 1]))
                 IN /\ CountLines(ins, LAMBDA l : l = fixme) = 1
                    /\ CountLines(ins, LAMBDA l : StartsWith(lstrip(l),
                           <<"#", " ", "FIXME", ":", " ", "unknown C">>)) = 1
                    /\ ins[Len(ins)] = fixme
                    /\ CountLines(ins, IsSignature) = 0
        /\ count = CountLines(SubSeq(lines, 1, i), IsKnownCall)
        /\ CountLines(out, IsUnknownError)
             = CountLines(SubSeq(lines, 1, i),
                          LAMBDA l : IsUnknownCall(l)
                                     \/ (IsAssignment(l) /\ AssignedSymbol(l) \notin DOMAIN hp_functions))
        /\ \A n \in WgpuNames :
              CountLines(out, LAMBDA m : m = UnknownError(n))
                 >= CountLines(SubSeq(lines, 1, i), LAMBDA l : IsUnknownCall(l) /\ CalledSymbol(l) = n)

C7_Witness ==
    /\ patcher = "FunctionPatcher" /\ pc = "scan" /\ i = Len(lines) /\ i = 3
    /\ IsUnknownCall(lines[1]) /\ UsesLibHandle(lines[1])
    /\ IsKnownCall(lines[2])
    /\ Len(diffs[0].ins) = 2

\* the symbols recorded as assigned to a field, in document order
RECURSIVE RecordedAssignments(_, _)
RecordedAssignments(ls, var) ==
    IF ls = <<>> THEN <<>>
    ELSE (IF /\ IsAssignment(Head(ls)) /\ AssignedField(Head(ls)) = var
             /\ AssignedSymbol(Head(ls)) \in DOMAIN hp_functions
          THEN <<AssignedSymbol(Head(ls))>> ELSE <<>>)
         \o RecordedAssignments(Tail(ls), var)

UseSites(ls, var) == {k \in 0..(Len(ls) - 1) : IsUse(ls[k + 1]) /\ UsedField(ls[k + 1]) = var}

Max(S) == CHOOSE x \in S : \A y \in S : y <= x

SignatureLine(indent, name) ==
    indent \o <<"#", " ", "H", ":", " ">> \o StripChars(hp_functions[name], {";"})

NoAssignmentsError(var) ==
    <<"ERROR", ":", " ", "There are no assignments to class field", " ", var>>

NeverUsedError(var) ==
    <<"ERROR", ":", " ", var, " ", "assigned a value but it is never used">>

\* C10: after the scan, for every invoked indirection field: with no recorded
\* assignment anywhere in the document, exactly one "no assignments" fix-me
\* line is inserted at its recorded use site and one ERROR is emitted;
\* otherwise one signature comment per recorded assignment is inserted at
\* that use site, in assignment order.  A field assigned but never invoked
\* causes one diagnostic and no inserted line.
C10_IndirectCalls ==
    (patcher = "FunctionPatcher" /\ pc = "applied") =>
        \A var \in FieldNames :
            LET sites == UseSites(lines, var)
                syms == RecordedAssignments(lines, var)
            IN /\ sites # {} =>
                    LET k == Max(sites)
                        indent == IndentOf(lines[k + 1])
                    IN /\ \A m \in sites \ {k} : diffs[m].ins = <<>>
                       /\ IF syms = <<>>
                          THEN /\ diffs[k].ins = <<indent \o <<"#", " ", "FIXME", ":", " ",
                                      "There are no assignments to class field", " ", var>>>>
                               /\ CountLines(out, LAMBDA m : m = NoAssignmentsError(var)) = 1
                          ELSE /\ diffs[k].ins = [m \in 1..Len(syms) |-> SignatureLine(indent, syms[m])]
                               /\ CountLines(out, LAMBDA m : m = NoAssignmentsError(var)) = 0
                       /\ CountLines(out, LAMBDA m : m = NeverUsedError(var)) = 0
               /\ sites = {} =>
                    /\ CountLines(out, LAMBDA m : m = NeverUsedError(var))
                         = (IF syms = <<>> THEN 0 ELSE 1)
                    /\ CountLines(out, LAMBDA m : m = NoAssignmentsError(var)) = 0
                    /\ \A k \in 0..(Len(lines) - 1) :
                          (IsAssignment(lines[k + 1]) /\ AssignedField(lines[k + 1]) = var
                           /\ AssignedSymbol(lines[k + 1]) \in DOMAIN hp_functions)
                             => diffs[k].ins = <<>>

\* two different symbols assigned, one of them after the use
C10_Witness ==
    /\ patcher = "FunctionPatcher" /\ pc = "applied" /\ Len(lines) = 3
    /\ IsAssignment(lines[1]) /\ IsUse(lines[2]) /\ IsAssignment(lines[3])
    /\ AssignedSymbol(lines[1]) # AssignedSymbol(lines[3])
    /\ Len(diffs[1].ins) = 2


\* the field-listing comment of WGPUColor
ColorListing ==
    <<"#", " ", "H", ":", " ", "r", ":", " ", "float", ",", " ", "g", ":", " ", "float",
      ",", " ", "b", ":", " ", "float", ",", " ", "a", ":", " ", "float">>

NotUsedLine(f) == <<" ", " ", " ", " ", "#", " ", "not used", ":", " ", f>>

\* the indexes at which a pass inserted a field-listing comment
Listed(d) == {k \in DOMAIN d : CountLines(d[k].ins, IsSignature) > 0}

\* the indexes of the lines a fast path rewrote (one per fast-path span)
Rewritten(d) == {k \in DOMAIN d : d[k].rep # <<>>}

\* C3 (as claimed): at the end of the struct-literal pass the validated-struct
\* counter equals the number of spans that were processed to the end (the
\* ones given a field-listing comment, and the fast-path ones); a span
\* abandoned because its struct name is absent from hp.structs is not counted.
C3_ValidatedCounters ==
    (patcher = "StructPatcher" /\ pc = "applied") =>
        count = Cardinality(Listed(diffs)) + Cardinality(Rewritten(diffs))

\* the literal of the scenario on three lines: x = new_struct( / "WGPUColor", r=1, g=2 / )
ThreeLineDoc == <<OpenLine, TripletLine, CloseLine>>

\* the same literal laid out as a block of five lines
FiveLineDoc == <<OpenLine, NameLine, FieldLine("r"), FieldLine("g"), CloseLine>>

FirstStructPass == patcher = "StructPatcher" /\ pc = "applied" /\ passes = <<>>

\* C4 (as claimed): a literal of WGPUColor on exactly 3 lines that assigns
\* only r and g gets one field-listing comment, no fix-me line, and one
\* "not used" line for b and for a before its closing line.
C4_ThreeLineLiteral ==
    (FirstStructPass /\ code0 = ThreeLineDoc) =>
        /\ CountLines(Inserted(diffs), IsSignature) = 1
        /\ CountLines(Inserted(diffs), IsFixme) = 0
        /\ diffs[2].ins = <<NotUsedLine("b"), NotUsedLine("a")>>

\* the declared fields a block document assigns (or marks as not used)
Mentioned(doc) ==
    {f \in {"r", "g", "b", "a"} :
        \E k \in 3..(Len(doc) - 1) :
            \/ doc[k] = FieldLine(f)
            \/ doc[k] = S4 \o <<"#", " ", "not used", ":", " ", f>>
            \/ StartsWith(doc[k], S4 \o <<f, "=">>)}

Declared == <<"r", "g", "b", "a">>

\* C4 (amended): a three-line literal whose middle line holds an assignment
\* only gets a comma appended to that line, and nothing is inserted; a
\* literal laid out as a block (opening line, name line, one line per
\* assigned field, closing line) with a declared struct, the matching helper
\* and declared fields only gets one field-listing comment before its opening
\* line, no fix-me line, and exactly one "not used" line per declared field
\* it does not assign, in declaration order, before its closing line.
C4_BlockLiteral ==
    /\ (FirstStructPass /\ code0 = ThreeLineDoc) =>
          /\ Inserted(diffs) = <<>>
          /\ dumps(lines, diffs) = <<OpenLine, TripletLine \o <<",">>, CloseLine>>
    /\ (FirstStructPass /\ code0 \in BlockDocs
          /\ ((code0[1] = OpenLine /\ code0[2] = NameLine)
              \/ (code0[1] = OpenPLine /\ code0[2] = NamePLine))
          /\ \A k \in 3..(Len(code0) - 1) : code0[k] # FieldLine("z")) =>
          LET unused == SelectSeq(Declared, LAMBDA f : f \notin Mentioned(code0))
          IN /\ diffs[0].ins = <<ColorListing>>
             /\ CountLines(Inserted(diffs), IsSignature) = 1
             /\ CountLines(Inserted(diffs), IsFixme) = 0
             /\ diffs[Len(code0) - 1].ins = [k \in 1..Len(unused) |-> NotUsedLine(unused[k])]
             /\ CountLines(Inserted(diffs), IsNotUsed) = Len(unused)

C4_Witness ==
    /\ FirstStructPass /\ code0 = FiveLineDoc
    /\ diffs[4].ins = <<NotUsedLine("b"), NotUsedLine("a")>>

\* an opening line whose text from new_struct on closes a parenthesis before
\* it opens one
ClosesFirst(text) ==
    \E k \in 1..Len(text) :
        text[k] = ")" /\ \A m \in 1..(k - 1) : text[m] \notin {"(", ")", "#"}

IsOpening(line) == HasNewStruct(line) /\ ~IsSkipped(line)
IsNegative(line) == IsOpening(line) /\ ClosesFirst(FromNewStruct(line))

\* line k+1 closes the span that line k opened
ClosesSecondLine(ls, k) ==
    /\ k >= 1 /\ k + 1 <= Len(ls)
    /\ IsOpening(ls[k]) /\ ~HasNewStruct(ls[k + 1])
    /\ ScanBraces(FromNewStruct(ls[k]), 0).end = "open"
    /\ ScanBraces(ls[k + 1], ScanBraces(FromNewStruct(ls[k]), 0).depth).end = "closed"

\* C8 (as claimed): the struct-literal pass aborts only when the brace depth
\* of the pending span would become negative.
C8_OnlyNegativeDepth ==
    (patcher = "StructPatcher" /\ pc = "raised") => brace_depth < 0

\* C8 (amended): the struct-literal pass aborts if and only if the brace
\* depth of a pending span would become negative or a span closes on the line
\* after its opening line (a span of exactly 2 lines); every other document,
\* with any schema mismatch, is scanned to its end, and then a span is left
\* pending only if it was opened and not closed before the end of the document.
C8_FatalCases ==
    /\ (patcher = "StructPatcher" /\ pc = "raised") =>
          \/ IsNegative(lines[i + 1]) /\ brace_depth < 0
          \/ ClosesSecondLine(lines, i) /\ line_index = i - 1
    /\ (patcher = "StructPatcher" /\ pc \in {"scan", "applied"}) =>
          \A k \in 1..i : ~IsNegative(lines[k]) /\ ~ClosesSecondLine(lines, k - 1)
    /\ (patcher = "StructPatcher" /\ pc = "applied") =>
          /\ i = Len(lines)
          /\ line_index >= 0 =>
                /\ IsOpening(lines[line_index + 1])
                /\ \A k \in (line_index + 1)..(Len(lines) - 1) : diffs[k] = NoDiff

\* a span of three lines with a mismatch is validated, and the pass ends
C8_Witness ==
    /\ patcher = "StructPatcher" /\ pc = "applied" /\ passes = <<>>
    /\ lines = <<OpenPLine, NameUnknownLine, CloseLine>>
    /\ Len(diffs[0].ins) = 2

\* the fix-me lines and the "not used" lines a pass inserted
FixmeLines(d) == SelectSeq(Inserted(d), IsFixme)
NotUsedLines(d) == SelectSeq(Inserted(d), IsNotUsed)

SecondStructPass ==
    /\ Len(passes) = 2
    /\ passes[1].patcher = "StructPatcher" /\ passes[2].patcher = "StructPatcher"

RECURSIVE Resized(_, _, _)
Resized(doc, base, grow) ==
    IF doc = <<>> THEN {}
    ELSE IF IsCommentLine(doc[1]) THEN Resized(Tail(doc), base + 1, grow)
    ELSE IF Balance(CodeOf(doc[1])) = 1 /\ EndsWith(doc[1], "(")
    THEN LET n == CloseAt(doc, 2, 1)
             m == IF n = 0 THEN 0 ELSE Len(Layout(SubSeq(doc, 1, n)))
         IN IF n = 0 THEN Resized(Tail(doc), base + 1, grow)
            ELSE (IF (grow /\ m > n) \/ (~grow /\ m < n) THEN base..(base + n - 1) ELSE {})
                 \cup Resized(SubSeq(doc, n + 1, Len(doc)), base + n, grow)
    ELSE (IF grow /\ Len(OneLine(doc[1])) > 1 THEN {base} ELSE {})
         \cup Resized(Tail(doc), base + 1, grow)

\* the index in the output of pass p of the line that has index k in its input
RECURSIVE InsertedUpTo(_, _)
InsertedUpTo(d, k) == IF k < 0 THEN 0 ELSE Len(d[k].ins) + InsertedUpTo(d, k - 1)
OutPos(p, k) == k + InsertedUpTo(p.diffs, k)

\* the lines pass p rewrote through a fast path whose literal the formatter
\* then lays out as a block
Deferred(p) ==
    {k \in Rewritten(p.diffs) : OutPos(p, k) \in Resized(p.output, 0, TRUE)}

\* the declared fields of WGPUColor that the literals rewritten at ks leave unassigned
RECURSIVE Unassigned(_, _)
Unassigned(p, ks) ==
    IF ks = {} THEN 0
    ELSE LET k == CHOOSE x \in ks : TRUE
         IN Cardinality({j \in 1..Len(Declared) :
                            ~Contains(p.diffs[k].rep[1], <<Declared[j], "=">>)})
              + Unassigned(p, ks \ {k})

IsGenerated(line) == IsFixme(line) \/ IsSignature(line)

\* C9 (as claimed): every fix-me line, signature comment and field-listing
\* comment the call-site pass or the struct-literal pass inserts is deleted by
\* the cleanup pass at the start of the next run of the pipeline, so the second
\* run never leaves two copies of a generated annotation before the same line.
C9_NoAccumulation ==
    /\ (Len(passes) >= 4 /\ passes[4].patcher = "CommentRemover") =>
          CountLines(passes[4].output, IsGenerated) = 0
    /\ Len(passes) = 6 =>
          \A k \in 1..(Len(passes[6].output) - 1) :
              IsGenerated(passes[6].output[k]) => passes[6].output[k + 1] # passes[6].output[k]

\* C5 (as claimed): write_mappings and compare_flags complete for every pair
\* of schemas; an absent enum is reported on the report stream and never
\* raises.
C5_Advisory == pc # "raised"

\* the lower-case spelling of a member name, hyphens removed
Normalized(text) ==
    LET low == [k \in 1..Len(text) |->
                   IF text[k] = "A" THEN "a" ELSE IF text[k] = "B" THEN "b" ELSE text[k]]
    IN SelectSeq(low, LAMBDA t : t # "-")

\* the native members whose lower-cased name is hkey, by position
Holders(members, hkey) == {k \in 1..Len(members) : Normalized(members[k][1]) = hkey}

MissingField(name, ikey) ==
    <<"Enum field", " ", name, ".">> \o ikey \o <<" ", "missing in wgpu.h">>

\* C6: for every interface enum with a native counterpart and every member
\* whose normalized key is among the native enum's lower-cased member names,
\* enummap["<Enum>.<Member>"] is the native integer stored under that key
\* (the one of the last native member spelled so); a member whose normalized
\* key is absent gets no enummap entry and one "missing" diagnostic.
C6_EnumTable ==
    (patcher = "write_mappings" /\ pc \in {"native", "written"}) =>
        \A e \in 1..Len(idl_enums) :
            LET name == idl_enums[e][1]
                members == idl_enums[e][2]
            IN Has(hp_enums, name) =>
                 \A m \in 1..Len(members) :
                    LET ikey == members[m][2]
                        native == Get(hp_enums, name)
                        holders == Holders(native, Normalized(ikey))
                        key == <<name, ".">> \o ikey
                    IN IF holders # {}
                       THEN /\ Has(enummap, key)
                            /\ Get(enummap, key) = native[Max(holders)][2]
                            /\ CountLines(out, LAMBDA o : o = MissingField(name, ikey)) = 0
                       ELSE /\ ~Has(enummap, key)
                            /\ CountLines(out, LAMBDA o : o = MissingField(name, ikey))
                                 = Cardinality({x \in 1..Len(members) : members[x][2] = ikey})

\* a hyphenated member resolved through a native name of mixed case, beside a missing one
C6_Witness ==
    /\ patcher = "write_mappings" /\ pc = "written"
    /\ Has(enummap, <<"TextureFormat", ".", "a", "-", "b">>)
    /\ Get(enummap, <<"TextureFormat", ".", "a", "-", "b">>) = 2
    /\ Has(Get(hp_enums, "TextureFormat"), <<"A", "b">>)
    /\ CountLines(out, LAMBDA o : o = MissingField("TextureFormat", <<"a">>)) = 1

====
